---- MODULE Spec2Model ----
(***************************************************************************)
(* AthletiTrack: the statistics entry workflow (manage_athlete_stats) and  *)
(* the bulk delete of athlete_list, over the Statistic and PerformanceStat *)
(* tables.                                                                 *)
(***************************************************************************)
EXTENDS Integers, Sequences, FiniteSets, Bags, TLC

\* Number of requests served in one behaviour.
MaxRequests == 2

None == "None"

(***************************************************************************)
(* The roster the views read: users, coach and athlete profiles, teams.    *)
(***************************************************************************)
CustomUser ==
  [ admin |-> [role |-> "ADMINISTRATOR", coach |-> None, athlete |-> None],
    uc1   |-> [role |-> "COACH",         coach |-> "c1", athlete |-> None],
    uc2   |-> [role |-> "COACH",         coach |-> "c2", athlete |-> None],
    uc3   |-> [role |-> "COACH",         coach |-> "c3", athlete |-> None],
    ux    |-> [role |-> "ATHLETE",       coach |-> None, athlete |-> "x"],
    uy    |-> [role |-> "ATHLETE",       coach |-> None, athlete |-> "y"],
    uz    |-> [role |-> "ATHLETE",       coach |-> None, athlete |-> "z"] ]

UserIds == DOMAIN CustomUser

\* x plays soccer under coach c1; y swims and has no assigned coach; z has a
\* coach but no team.
Athlete ==
  [ x |-> [user |-> "ux", team |-> "t1", coach |-> "c1"],
    y |-> [user |-> "uy", team |-> "t2", coach |-> None],
    z |-> [user |-> "uz", team |-> None, coach |-> "c2"] ]

AthleteIds == DOMAIN Athlete

\* c3 coaches x's team without being x's coach; c2 has no team.
Coach ==
  [ c1 |-> [user |-> "uc1", team |-> "t1"],
    c2 |-> [user |-> "uc2", team |-> None],
    c3 |-> [user |-> "uc3", team |-> "t1"] ]

Team == [ t1 |-> [sport |-> "soccer"], t2 |-> [sport |-> "swimming"] ]

(***************************************************************************)
(* Form input.                                                             *)
(***************************************************************************)
\* The (key, label) pairs of the universal statistics.
UNIVERSAL_STATISTICS == << <<"pts", "Points">> >>

\* Statistic rows present before the first request: the sport-specific
\* definitions.  Hockey has its own "Points", keyed like the universal one.
SeededStatistics ==
  { [id |-> 1, name |-> "Goals",  sport |-> "soccer", short_name |-> "goals"],
    [id |-> 2, name |-> "Points", sport |-> "hockey", short_name |-> "pts"] }

Keys == {"pts", "goals"}
Values == {"3", "10", "12"}
Years == {2024, 2025}
RawYears == {"", "abc", "2024", "2025"}

\* No pre-filled statistic field.
NoValues == [k \in Keys |-> ""]

VARIABLES
  users,         \* the CustomUser rows that exist
  stats,         \* the Statistic table: a set of rows
  perf,          \* the PerformanceStat table: a bag of rows
  req,           \* the last request: view, method, actor, pk
  applied,       \* the cleaned data the last request handed to the upsert loops
  outcome,       \* how the last request ended
  initial_data,  \* the initial data of the form the last GET rendered
  received,      \* (athlete, statistic, year) triples submitted with a value
  repeated,      \* the last request applied again what the request before it applied
  nreq,          \* requests served
  inflight       \* the POST requests being served side by side, one per worker

vars == <<users, stats, perf, req, applied, outcome, initial_data, received, repeated, nreq, inflight>>

(***************************************************************************)
(* Roster lookups.                                                         *)
(***************************************************************************)
\* An Athlete row goes when its user goes.
AthleteExists(us, pk) == pk \in AthleteIds /\ Athlete[pk].user \in us

\* hasattr(request.user, 'coach')
HasCoach(actor) == CustomUser[actor].coach # None

\* hasattr(request.user, 'athlete')
HasAthlete(actor) == CustomUser[actor].athlete # None

(***************************************************************************)
(* The ORM calls the views make.                                           *)
(***************************************************************************)
\* Statistic.objects.filter(sport=...)
StatisticFilter(st, sport) == {s \in st : s.sport = sport}

\* A queryset's rows in primary-key order.
RECURSIVE ById(_)
ById(rows) ==
  IF rows = {} THEN <<>>
  ELSE LET first == CHOOSE r \in rows : \A o \in rows : r.id <= o.id
       IN  <<first>> \o ById(rows \ {first})

NextId(st) == IF st = {} THEN 1 ELSE 1 + CHOOSE n \in {s.id : s \in st} : \A s \in st : s.id <= n

\* The rows get(name=label, sport=None) matches.
UniversalMatch(st, label) == {s \in st : s.name = label /\ s.sport = None}

\* Mutant: create() without the get() before it.
GetOrCreateStatistic_AlwaysCreate(st, label, key) ==
  [stats |-> st \cup {[id |-> NextId(st), name |-> label, sport |-> None, short_name |-> key]},
   obj |-> NextId(st), err |-> FALSE]

\* Statistic.objects.get_or_create(name=label, sport=None, defaults={'short_name': key})
\* err: get() found several rows (MultipleObjectsReturned).
GetOrCreateStatistic(st, label, key) ==
  LET found == UniversalMatch(st, label)
  IN  IF found = {}
        THEN [stats |-> st \cup {[id |-> NextId(st), name |-> label, sport |-> None, short_name |-> key]},
              obj |-> NextId(st), err |-> FALSE]
      ELSE IF Cardinality(found) = 1
        THEN [stats |-> st, obj |-> (CHOOSE s \in found : TRUE).id, err |-> FALSE]
      ELSE [stats |-> st, obj |-> 0, err |-> TRUE]

\* The PerformanceStat rows of one (athlete, statistic, year).
PerfMatch(pf, athlete, statistic, year) ==
  {r \in BagToSet(pf) : r.athlete = athlete /\ r.statistic = statistic /\ r.year = year}

\* How many rows a set of distinct row values stands for in the table.
RowCount(pf, rows) == BagCardinality([r \in rows |-> pf[r]])

PerfRow(athlete, statistic, year, value) ==
  [athlete |-> athlete, statistic |-> statistic, year |-> year, value |-> value]

\* Mutant: create() in place of update_or_create().
UpdateOrCreatePerf_AlwaysCreate(pf, athlete, statistic, year, value) ==
  [perf |-> pf (+) SetToBag({PerfRow(athlete, statistic, year, value)}), err |-> FALSE]

\* PerformanceStat.objects.update_or_create(athlete=, statistic=, year=, defaults={'value': value})
UpdateOrCreatePerf(pf, athlete, statistic, year, value) ==
  LET found == PerfMatch(pf, athlete, statistic, year)
      n     == RowCount(pf, found)
  IN  IF n = 0
        THEN [perf |-> pf (+) SetToBag({PerfRow(athlete, statistic, year, value)}), err |-> FALSE]
      ELSE IF n = 1
        THEN [perf |-> (pf (-) SetToBag(found)) (+) SetToBag({PerfRow(athlete, statistic, year, value)}),
              err |-> FALSE]
      ELSE [perf |-> pf, err |-> TRUE]

(***************************************************************************)
(* ScorecardForm.                                                          *)
(***************************************************************************)
\* The statistic fields of the form built for a sport.
ScorecardFields(st, sport) ==
  {UNIVERSAL_STATISTICS[i][1] : i \in DOMAIN UNIVERSAL_STATISTICS}
    \cup {s.short_name : s \in StatisticFilter(st, sport)}

\* The year field's cleaned value; 0 when the input is missing or not a number.
CleanYear(rawYear) ==
  IF rawYear = "2024" THEN 2024 ELSE IF rawYear = "2025" THEN 2025 ELSE 0

\* form.is_valid(): only the year is required.
FormIsValid(rawYear) == CleanYear(rawYear) # 0

\* form.cleaned_data.get(key)
CleanedGet(st, sport, values, key) ==
  IF key \in ScorecardFields(st, sport) /\ key \in DOMAIN values THEN values[key] ELSE ""

(***************************************************************************)
(* manage_athlete_stats.                                                   *)
(***************************************************************************)
\* Mutant: any coach of the athlete's team passes.
IsTheirCoach_SameTeam(actor, pk) ==
  HasCoach(actor) /\ Athlete[pk].team = Coach[CustomUser[actor].coach].team

IsTheirCoach(actor, pk) == HasCoach(actor) /\ Athlete[pk].coach = CustomUser[actor].coach

IsAdmin(actor) == CustomUser[actor].role = "ADMINISTRATOR"

\* Mutant: the authorization check moved before the team check.
Gate_AuthorizationFirst(actor, pk) ==
  IF ~((HasCoach(actor) /\ Athlete[pk].coach = CustomUser[actor].coach)
       \/ CustomUser[actor].role = "ADMINISTRATOR") THEN "unauthorized"
  ELSE IF Athlete[pk].team = None THEN "no_team"
  ELSE "ok"

\* The checks before the form: the team first, then the authorization.
Gate(actor, pk) ==
  IF Athlete[pk].team = None THEN "no_team"
  ELSE IF ~(IsTheirCoach(actor, pk) \/ IsAdmin(actor)) THEN "unauthorized"
  ELSE "ok"

\* Mutant: the test on the value dropped.
HasValue_Always(value) == TRUE

\* "if value:"
HasValue(value) == value # ""

Call(op, name, short_name, statistic, value) ==
  [op |-> op, name |-> name, short_name |-> short_name, statistic |-> statistic, value |-> value]

\* The ORM calls of the loop over UNIVERSAL_STATISTICS, in order.
RECURSIVE UniversalCalls(_, _, _, _)
UniversalCalls(i, st, sport, values) ==
  IF i > Len(UNIVERSAL_STATISTICS) THEN <<>>
  ELSE LET key   == UNIVERSAL_STATISTICS[i][1]
           label == UNIVERSAL_STATISTICS[i][2]
           value == CleanedGet(st, sport, values, key)
       IN  (IF HasValue(value)
              THEN << Call("get_or_create", label, key, 0, value),
                      Call("update_or_create", label, key, 0, value) >>
              ELSE <<>>)
           \o UniversalCalls(i + 1, st, sport, values)

\* The ORM calls of the loop over sport_specific_stats, in order.
RECURSIVE SpecificCalls(_, _, _, _)
SpecificCalls(defs, st, sport, values) ==
  IF defs = <<>> THEN <<>>
  ELSE LET stat_definition == Head(defs)
           value == CleanedGet(st, sport, values, stat_definition.short_name)
       IN  (IF HasValue(value)
              THEN << Call("update_or_create", stat_definition.name, stat_definition.short_name,
                           stat_definition.id, value) >>
              ELSE <<>>)
           \o SpecificCalls(Tail(defs), st, sport, values)

UpsertCalls(st, sport, values) ==
  UniversalCalls(1, st, sport, values)
    \o SpecificCalls(ById(StatisticFilter(st, sport)), st, sport, values)

\* One ORM call against the tables.  db.stat_obj is the loop's stat_obj.
ExecCall(c, athlete, year, db) ==
  IF c.op = "get_or_create"
    THEN LET r == GetOrCreateStatistic(db.stats, c.name, c.short_name)
         IN  [db EXCEPT !.stats = r.stats, !.stat_obj = r.obj, !.failed = r.err]
    ELSE LET statistic == IF c.statistic = 0 THEN db.stat_obj ELSE c.statistic
             r == UpdateOrCreatePerf(db.perf, athlete, statistic, year, c.value)
         IN  [db EXCEPT !.perf = r.perf, !.failed = r.err]

\* The calls run one after the other, each committed as it returns; the
\* failAt-th call raises a storage error (0: none does) and ends the request.
RECURSIVE RunCalls(_, _, _, _, _, _)
RunCalls(calls, n, failAt, athlete, year, db) ==
  IF calls = <<>> \/ db.failed THEN db
  ELSE IF n = failAt THEN [db EXCEPT !.failed = TRUE]
  ELSE RunCalls(Tail(calls), n + 1, failAt, athlete, year, ExecCall(Head(calls), athlete, year, db))

Upsert(st, pf, athlete, year, values, failAt) ==
  RunCalls(UpsertCalls(st, Team[Athlete[athlete].team].sport, values), 1, failAt, athlete, year,
           [stats |-> st, perf |-> pf, stat_obj |-> 0, failed |-> FALSE])

\* Mutant: the loops run whether or not the form is valid.
PostTables_Always(valid, before, after) == after

\* "if form.is_valid():" -- the tables after the POST branch.
PostTables(valid, before, after) == IF valid THEN after ELSE before

\* initial_data of the GET branch: one entry per existing record of the
\* athlete for today's year, keyed by its statistic's short_name.  The set of
\* the dictionaries the loop can end with, one per order of the rows.
ShortNameOf(st, statistic) == {s.short_name : s \in {t \in st : t.id = statistic}}

\* Mutant: initial_data keyed by the statistic's name.
InitialKey_ByName(st, stat_record) == {s.name : s \in {t \in st : t.id = stat_record.statistic}}

InitialKey(st, stat_record) == ShortNameOf(st, stat_record.statistic)

InitialData(st, pf, athlete, today) ==
  LET existing_stats == {r \in BagToSet(pf) : r.athlete = athlete /\ r.year = today}
      candidates(k)  == {r.value : r \in {e \in existing_stats : k \in InitialKey(st, e)}}
  IN  {d \in [Keys -> Values \cup {""}] :
         \A k \in Keys : IF candidates(k) = {} THEN d[k] = "" ELSE d[k] \in candidates(k)}

\* What request.POST can hold for the statistic fields of the form
\* ("" = blank or absent).
PostData(st, sport) == [ScorecardFields(st, sport) -> Values \cup {""}]

NoSubmission == [pk |-> None, year |-> 0, values |-> <<>>]

\* The triples a submission carries a value for, the statistic named by
\* (name, sport).
Submitted(st, pk, year, values) ==
  LET sport == Team[Athlete[pk].team].sport
  IN  {<<pk, <<UNIVERSAL_STATISTICS[i][2], None>>, year>> :
          i \in {j \in DOMAIN UNIVERSAL_STATISTICS : values[UNIVERSAL_STATISTICS[j][1]] # ""}}
      \cup {<<pk, <<s.name, s.sport>>, year>> :
          s \in {t \in StatisticFilter(st, sport) : values[t.short_name] # ""}}

\* GET /athletes/pk/stats on a day of the year `today`.
ManageStatsGet(actor, pk, today) ==
  /\ nreq < MaxRequests
  /\ actor \in users
  /\ nreq' = nreq + 1
  /\ req' = [view |-> "manage_athlete_stats", method |-> "GET", actor |-> actor, pk |-> pk, year |-> ""]
  /\ repeated' = FALSE
  /\ UNCHANGED <<users, stats, perf, received, inflight>>
  /\ IF ~AthleteExists(users, pk)
       THEN outcome' = "404" /\ initial_data' = NoValues /\ applied' = NoSubmission
     ELSE IF Gate(actor, pk) # "ok"
       THEN outcome' = Gate(actor, pk) /\ initial_data' = NoValues /\ applied' = NoSubmission
     ELSE /\ outcome' = "form"
          /\ applied' = [NoSubmission EXCEPT !.pk = pk, !.year = today]
          /\ initial_data' \in InitialData(stats, perf, pk, today)

PostRequest(actor, pk, rawYear) ==
  [view |-> "manage_athlete_stats", method |-> "POST", actor |-> actor, pk |-> pk, year |-> rawYear]

\* The POST branch: the form is bound to request.POST and, when valid, the
\* two loops run.
PostBranch(pk, rawYear, values, failAt) ==
  LET valid  == FormIsValid(rawYear)
      year   == CleanYear(rawYear)
      before == [stats |-> stats, perf |-> perf, stat_obj |-> 0, failed |-> FALSE]
      after  == PostTables(valid, before, Upsert(stats, perf, pk, year, values, failAt))
      done   == valid /\ ~after.failed
  IN  /\ stats' = after.stats
      /\ perf' = after.perf
      /\ outcome' = IF ~valid THEN "invalid" ELSE IF after.failed THEN "error" ELSE "success"
      /\ applied' = IF done THEN [pk |-> pk, year |-> year, values |-> values] ELSE NoSubmission
      /\ repeated' = (done /\ outcome = "success" /\ applied = [pk |-> pk, year |-> year, values |-> values])
      /\ received' = IF done THEN received \cup Submitted(stats, pk, year, values) ELSE received

\* POST /athletes/pk/stats.
ManageStatsPost(actor, pk) ==
  /\ nreq < MaxRequests
  /\ actor \in users
  /\ nreq' = nreq + 1
  /\ initial_data' = NoValues
  /\ UNCHANGED <<users, inflight>>
  /\ IF ~AthleteExists(users, pk)
       THEN /\ outcome' = "404"
            /\ req' = PostRequest(actor, pk, "")
            /\ applied' = NoSubmission /\ repeated' = FALSE
            /\ UNCHANGED <<stats, perf, received>>
     ELSE IF Gate(actor, pk) # "ok"
       THEN /\ outcome' = Gate(actor, pk)
            /\ req' = PostRequest(actor, pk, "")
            /\ applied' = NoSubmission /\ repeated' = FALSE
            /\ UNCHANGED <<stats, perf, received>>
     ELSE LET sport == Team[Athlete[pk].team].sport
          IN  \E rawYear \in RawYears, values \in PostData(stats, sport) :
                \E failAt \in 0..(IF FormIsValid(rawYear) THEN Len(UpsertCalls(stats, sport, values)) ELSE 0) :
                  /\ req' = PostRequest(actor, pk, rawYear)
                  /\ PostBranch(pk, rawYear, values, failAt)

(***************************************************************************)
(* athlete_list: the bulk delete.                                          *)
(***************************************************************************)
\* base_queryset: the Athlete rows the requester may see.
BaseQueryset(us, actor) ==
  LET all == {a \in AthleteIds : AthleteExists(us, a)}
  IN  IF CustomUser[actor].role = "ADMINISTRATOR" THEN all
      ELSE IF CustomUser[actor].role = "COACH"
        THEN IF HasCoach(actor) /\ Coach[CustomUser[actor].coach].team # None
               THEN {a \in all : Athlete[a].team = Coach[CustomUser[actor].coach].team}
               ELSE {}
      ELSE IF CustomUser[actor].role = "ATHLETE"
        THEN IF HasAthlete(actor) /\ Athlete[CustomUser[actor].athlete].team # None
               THEN {a \in all : Athlete[a].team = Athlete[CustomUser[actor].athlete].team}
               ELSE {}
      ELSE {}

\* Mutant: the submitted ids deleted without the filter on base_queryset.
DeletableUsers_Unfiltered(us, actor, user_ids_to_delete) == user_ids_to_delete \cap us

\* base_queryset.filter(user_id__in=user_ids_to_delete).values_list('user_id')
DeletableUsers(us, actor, user_ids_to_delete) ==
  {Athlete[a].user : a \in {b \in BaseQueryset(us, actor) : Athlete[b].user \in user_ids_to_delete}}

\* The PerformanceStat rows left once the athletes of the deleted users go.
CascadeDelete(pf, deleted) ==
  LET kept == {r \in BagToSet(pf) : Athlete[r.athlete].user \notin deleted}
  IN  [r \in kept |-> pf[r]]

\* POST /athletes/ with athlete_ids.
AthleteListPost(actor, user_ids_to_delete) ==
  /\ nreq < MaxRequests
  /\ actor \in users
  /\ nreq' = nreq + 1
  /\ req' = [view |-> "athlete_list", method |-> "POST", actor |-> actor, pk |-> None, year |-> ""]
  /\ repeated' = FALSE
  /\ applied' = NoSubmission
  /\ initial_data' = NoValues
  /\ outcome' = "redirect"
  /\ LET deletable_users == DeletableUsers(users, actor, user_ids_to_delete)
     IN  /\ users' = users \ deletable_users
         /\ perf' = CascadeDelete(perf, deletable_users)
  /\ UNCHANGED <<stats, received, inflight>>

(***************************************************************************)
(* Specifications.                                                         *)
(***************************************************************************)
Workers == {1, 2}

Idle == [pc |-> "idle", actor |-> None, pk |-> None, year |-> 0, values |-> <<>>,
         calls |-> <<>>, stat_obj |-> 0]

Init ==
  /\ inflight = [w \in Workers |-> Idle]
  /\ users = UserIds
  /\ stats = SeededStatistics
  /\ perf = EmptyBag
  /\ req = [view |-> None, method |-> None, actor |-> None, pk |-> None, year |-> ""]
  /\ repeated = FALSE
  /\ applied = NoSubmission
  /\ outcome = None
  /\ initial_data = NoValues
  /\ received = {}
  /\ nreq = 0

Get == \E actor \in UserIds, pk \in AthleteIds, today \in Years : ManageStatsGet(actor, pk, today)

Post == \E actor \in UserIds, pk \in AthleteIds : ManageStatsPost(actor, pk)

BulkDelete ==
  \E actor \in UserIds, user_ids_to_delete \in SUBSET {Athlete[a].user : a \in AthleteIds} :
    AthleteListPost(actor, user_ids_to_delete)

\* Every view.
Next == Get \/ Post \/ BulkDelete

Spec == Init /\ [][Next]_vars

\* The statistics workflow alone.
NextStats == Get \/ Post

SpecStats == Init /\ [][NextStats]_vars

(***************************************************************************)
(* Two submissions served side by side.  Each ORM call commits on its own; *)
(* get_or_create and update_or_create are a lookup and, on a miss, a later *)
(* insert; on a hit update_or_create changes the row it locked.            *)
(***************************************************************************)
\* A worker takes a POST that passes the gate and validates; the two
\* requests come from two actors and are about the same athlete and year.
ConcBegin(w, actor, pk, rawYear, values) ==
  /\ inflight[w].pc = "idle"
  /\ \A o \in Workers \ {w} :
        \/ inflight[o].pc = "idle"
        \/ inflight[o].pk = pk /\ inflight[o].year = CleanYear(rawYear) /\ inflight[o].actor # actor
  /\ actor \in users /\ AthleteExists(users, pk)
  /\ Gate(actor, pk) = "ok"
  /\ FormIsValid(rawYear)
  /\ values \in PostData(stats, Team[Athlete[pk].team].sport)
  /\ inflight' = [inflight EXCEPT ![w] =
       [pc |-> "lookup", actor |-> actor, pk |-> pk, year |-> CleanYear(rawYear), values |-> values,
        calls |-> UpsertCalls(stats, Team[Athlete[pk].team].sport, values), stat_obj |-> 0]]
  /\ UNCHANGED <<users, stats, perf, req, applied, outcome, initial_data, received, repeated, nreq>>

\* The statistic an update_or_create call is about.
CallStatistic(wk) == IF Head(wk.calls).statistic = 0 THEN wk.stat_obj ELSE Head(wk.calls).statistic

\* The lookup of the worker's next call.
ConcLookup(w) ==
  LET wk == inflight[w]
      c  == Head(wk.calls)
  IN  /\ wk.pc = "lookup" /\ wk.calls # <<>>
      /\ UNCHANGED <<users, req, applied, outcome, initial_data, received, repeated, nreq>>
      /\ IF c.op = "get_or_create"
           THEN LET found == UniversalMatch(stats, c.name)
                IN  /\ UNCHANGED <<stats, perf>>
                    /\ inflight' = [inflight EXCEPT ![w] =
                         IF found = {} THEN [wk EXCEPT !.pc = "create"]
                         ELSE IF Cardinality(found) = 1
                           THEN [wk EXCEPT !.stat_obj = (CHOOSE s \in found : TRUE).id, !.calls = Tail(wk.calls)]
                         ELSE [wk EXCEPT !.pc = "failed"]]
           ELSE LET found == PerfMatch(perf, wk.pk, CallStatistic(wk), wk.year)
                    n     == RowCount(perf, found)
                IN  /\ UNCHANGED stats
                    /\ perf' = IF n = 1
                                 THEN UpdateOrCreatePerf(perf, wk.pk, CallStatistic(wk), wk.year, c.value).perf
                                 ELSE perf
                    /\ inflight' = [inflight EXCEPT ![w] =
                         IF n = 0 THEN [wk EXCEPT !.pc = "create"]
                         ELSE IF n = 1 THEN [wk EXCEPT !.calls = Tail(wk.calls)]
                         ELSE [wk EXCEPT !.pc = "failed"]]

\* The insert that follows a lookup that found nothing.
ConcCreate(w) ==
  LET wk == inflight[w]
      c  == Head(wk.calls)
  IN  /\ wk.pc = "create"
      /\ UNCHANGED <<users, req, applied, outcome, initial_data, received, repeated, nreq>>
      /\ IF c.op = "get_or_create"
           THEN /\ stats' = stats \cup {[id |-> NextId(stats), name |-> c.name, sport |-> None,
                                         short_name |-> c.short_name]}
                /\ UNCHANGED perf
                /\ inflight' = [inflight EXCEPT ![w] =
                     [wk EXCEPT !.pc = "lookup", !.stat_obj = NextId(stats), !.calls = Tail(wk.calls)]]
           ELSE /\ perf' = perf (+) SetToBag({PerfRow(wk.pk, CallStatistic(wk), wk.year, c.value)})
                /\ UNCHANGED stats
                /\ inflight' = [inflight EXCEPT ![w] = [wk EXCEPT !.pc = "lookup", !.calls = Tail(wk.calls)]]

\* The redirect after the loops.
ConcFinish(w) ==
  /\ inflight[w].pc = "lookup" /\ inflight[w].calls = <<>>
  /\ inflight' = [inflight EXCEPT ![w].pc = "done"]
  /\ UNCHANGED <<users, stats, perf, req, applied, outcome, initial_data, received, repeated, nreq>>

Begin ==
  \E w \in Workers, actor \in UserIds, pk \in AthleteIds, rawYear \in RawYears,
     values \in [Keys -> Values \cup {""}] : ConcBegin(w, actor, pk, rawYear, values)

Lookup == \E w \in Workers : ConcLookup(w)

Create == \E w \in Workers : ConcCreate(w)

Finish == \E w \in Workers : ConcFinish(w)

NextConc == Begin \/ Lookup \/ Create \/ Finish

SpecConc == Init /\ [][NextConc]_vars

(***************************************************************************)
(* Properties.                                                             *)
(***************************************************************************)
\* A step that serves a request to manage_athlete_stats.
ManageStep == nreq' = nreq + 1 /\ req'.view = "manage_athlete_stats"

TablesUnchanged == stats' = stats /\ perf' = perf

\* The rows of one athlete and year whose statistic is named (name, sport).
NamedRows(st, pf, athlete, named, year) ==
  {r \in BagToSet(pf) :
     /\ r.athlete = athlete /\ r.year = year
     /\ \E s \in st : s.id = r.statistic /\ <<s.name, s.sport>> = named}

\* C1: after any sequence of POSTs to manage_athlete_stats no (athlete,
\* statistic, year) triple has two records, and every triple an accepted
\* submission gave a value for has exactly one.
C1_OneRecordPerTriple ==
  /\ \A r \in BagToSet(perf) : RowCount(perf, PerfMatch(perf, r.athlete, r.statistic, r.year)) = 1
  /\ \A t \in received : RowCount(perf, NamedRows(stats, perf, t[1], t[2], t[3])) = 1

\* y's only statistic was submitted twice and is still one record.
C1_Witness ==
  /\ repeated /\ applied.pk = "y" /\ applied.values["pts"] # ""
  /\ received = {<<"y", <<"Points", None>>, applied.year>>}
  /\ BagCardinality(perf) = 1

\* C2: a submission that fails part-way leaves the tables as they were before
\* it.
C2_AllOrNothing == [][ManageStep /\ outcome' = "error" => TablesUnchanged]_vars

\* The actor may manage the athlete: an administrator, or the user of the
\* coach assigned to the athlete.
MayManage(actor, pk) ==
  \/ CustomUser[actor].role = "ADMINISTRATOR"
  \/ Athlete[pk].coach # None /\ Coach[Athlete[pk].coach].user = actor

Proceeded == {"form", "invalid", "success", "error"}

\* C3: for an athlete with a team the request reaches the form or the upsert
\* iff the actor is an administrator or the athlete's assigned coach; any
\* other actor is redirected with the authorization error and no record is
\* created or changed.
C3_Authorization ==
  [][ManageStep /\ AthleteExists(users, req'.pk) /\ Athlete[req'.pk].team # None
       => /\ (outcome' \in Proceeded) <=> MayManage(req'.actor, req'.pk)
          /\ ~MayManage(req'.actor, req'.pk) => outcome' = "unauthorized" /\ TablesUnchanged]_vars

\* A coach of x's team who is not x's coach was turned away on a POST.
C3_Witness ==
  /\ req.view = "manage_athlete_stats" /\ req.method = "POST"
  /\ req.actor = "uc3" /\ req.pk = "x" /\ outcome = "unauthorized"

\* C4: a request for an athlete without a team, GET or POST and from any
\* actor, ends with the no-team rejection (also when the actor is not
\* authorized) and writes nothing.
C4_NoTeam ==
  [][ManageStep /\ AthleteExists(users, req'.pk) /\ Athlete[req'.pk].team = None
       => outcome' = "no_team" /\ TablesUnchanged]_vars

\* An actor who may not manage z got the no-team rejection.
C4_Witness ==
  /\ req.view = "manage_athlete_stats" /\ req.pk = "z" /\ req.actor = "uc1"
  /\ ~MayManage(req.actor, req.pk) /\ outcome = "no_team"

\* The statistic is one the submission carries a value for.
Carried(s, sub) ==
  LET sport == Team[Athlete[sub.pk].team].sport
  IN  \/ /\ s.sport = None
         /\ \E i \in DOMAIN UNIVERSAL_STATISTICS :
               /\ UNIVERSAL_STATISTICS[i][2] = s.name
               /\ sub.values[UNIVERSAL_STATISTICS[i][1]] # ""
      \/ /\ s.sport = sport
         /\ s.short_name \in DOMAIN sub.values
         /\ sub.values[s.short_name] # ""

\* C5: an accepted submission leaves every record alone whose statistic has
\* no value in it, and every record of another athlete or year; the records
\* it has a value for hold that value.
C5_SelectiveWrite ==
  [][ManageStep /\ outcome' = "success"
       => LET sub == applied'
          IN  /\ \A r \in BagToSet(perf) \cup BagToSet(perf') :
                   \/ /\ r.athlete = sub.pk /\ r.year = sub.year
                      /\ \E s \in stats' : s.id = r.statistic /\ Carried(s, sub)
                   \/ /\ r \in BagToSet(perf) /\ r \in BagToSet(perf')
                      /\ perf'[r] = perf[r]
              /\ \A k \in DOMAIN sub.values : sub.values[k] # "" =>
                   \E r \in BagToSet(perf'), s \in stats' :
                      /\ r.athlete = sub.pk /\ r.year = sub.year /\ r.statistic = s.id
                      /\ s.short_name = k /\ r.value = sub.values[k]]_vars

\* {pts: "10", goals: "3"} and then {pts: "12"}: Points is "12", Goals "3".
C5_Witness ==
  /\ outcome = "success" /\ applied.pk = "x"
  /\ applied.values = [pts |-> "12", goals |-> ""]
  /\ \E p, g \in stats :
        /\ p.name = "Points" /\ p.sport = None /\ g.name = "Goals" /\ g.sport = "soccer"
        /\ perf = SetToBag({PerfRow("x", p.id, applied.year, "12"), PerfRow("x", g.id, applied.year, "3")})

\* C6: a submission applied right after the same submission leaves the
\* Statistic and PerformanceStat tables exactly as the first left them.
C6_Idempotent ==
  [][ManageStep /\ repeated' => TablesUnchanged]_vars

\* Both of x's fields were submitted twice in a row.
C6_Witness ==
  /\ repeated /\ applied.pk = "x"
  /\ applied.values["pts"] # "" /\ applied.values["goals"] # ""
  /\ BagCardinality(perf) = 2

\* C7: when the two submissions are done, every triple has a single record
\* holding the value one of them wrote, and each universal definition exists
\* once.
C7_LastWriteWins ==
  (\A w \in Workers : inflight[w].pc \in {"done", "failed"})
    => /\ \A w \in Workers : inflight[w].pc = "done"
       /\ \A i \in DOMAIN UNIVERSAL_STATISTICS :
            Cardinality(UniversalMatch(stats, UNIVERSAL_STATISTICS[i][2])) <= 1
       /\ \A r \in BagToSet(perf) : RowCount(perf, PerfMatch(perf, r.athlete, r.statistic, r.year)) = 1
       /\ \A r \in BagToSet(perf) :
            \E w \in Workers, s \in stats :
               /\ s.id = r.statistic /\ inflight[w].pk = r.athlete /\ inflight[w].year = r.year
               /\ inflight[w].values[s.short_name] = r.value

\* The year field holds a number.
Numeric(rawYear) == rawYear \in {"2024", "2025"}

\* C8: a POST that passes the checks with a missing or non-numeric year
\* writes no Statistic and no PerformanceStat and re-renders the form.
C8_InvalidForm ==
  [][ManageStep /\ req'.method = "POST" /\ AthleteExists(users, req'.pk)
       /\ Athlete[req'.pk].team # None /\ MayManage(req'.actor, req'.pk)
       => /\ (outcome' = "invalid") <=> ~Numeric(req'.year)
          /\ outcome' = "invalid" => TablesUnchanged /\ received' = received]_vars

\* A POST with a non-numeric year, after statistics were stored.
C8_Witness ==
  /\ req.method = "POST" /\ req.year = "abc" /\ outcome = "invalid"
  /\ BagCardinality(perf) = 2

\* C9: a GET that follows an accepted submission, for the same athlete and
\* with the submission's year as the current year, pre-fills every field the
\* submission gave a value with that value.
C9_RoundTrip ==
  [][(outcome = "success" /\ ManageStep /\ outcome' = "form"
        /\ req'.pk = applied.pk /\ applied'.year = applied.year)
       => \A k \in DOMAIN applied.values :
             applied.values[k] # "" => initial_data'[k] = applied.values[k]]_vars

\* A form pre-filled with a universal and a sport-specific statistic.
C9_Witness ==
  /\ outcome = "form" /\ req.pk = "x"
  /\ initial_data["pts"] # "" /\ initial_data["goals"] # ""

\* The athletes the requester's role lets them see.
VisibleTo(us, actor) ==
  {a \in AthleteIds :
     /\ Athlete[a].user \in us
     /\ \/ CustomUser[actor].role = "ADMINISTRATOR"
        \/ /\ CustomUser[actor].role = "COACH" /\ Athlete[a].team # None
           /\ \E c \in DOMAIN Coach : Coach[c].user = actor /\ Coach[c].team = Athlete[a].team
        \/ /\ CustomUser[actor].role = "ATHLETE" /\ Athlete[a].team # None
           /\ \E m \in AthleteIds : Athlete[m].user = actor /\ Athlete[m].team = Athlete[a].team}

\* C10: a bulk delete removes only users of athletes in the requester's
\* visible set; every other athlete and user is still there afterwards.
C10_BulkDeleteScope ==
  [][nreq' = nreq + 1 /\ req'.view = "athlete_list"
       => /\ users' \subseteq users
          /\ users \ users' \subseteq {Athlete[a].user : a \in VisibleTo(users, req'.actor)}]_vars

\* The second coach of x's team deleted x; y and z are still there.
C10_Witness ==
  /\ req.view = "athlete_list" /\ req.actor = "uc3"
  /\ users = UserIds \ {"ux"}

====
